---- MODULE Spec2Model ----
(***************************************************************************)
(* Model of the inventory collection engine of aws-audit-tool              *)
(* (src/inventory.py): safe_call, _paginate, collect_global_inventory,     *)
(* collect_region_inventory and collect_inventory.                         *)
(*                                                                         *)
(* Python dicts are functions with a string domain, lists are sequences.   *)
(* A Python call either returns a value or raises: Return(v) / Raise(e).   *)
(* The provider (boto3) is the environment: every API invocation ends      *)
(* "ok", with a ClientError (a provider fault) or with another exception   *)
(* (an environment fault such as EndpointConnectionError).                 *)
(***************************************************************************)
EXTENDS Integers, Sequences, FiniteSets, TLC

(* ------------------------------ bounds --------------------------------- *)
\* pages a provider pager holds
MaxPages == 3
\* length of the region list handed to collect_inventory
MaxRegions == 2
\* largest max_workers argument tried
MaxWorkers == 2
\* provider faults (ClientError) met by one collector run, unless the provider
\* is in an outage, where every invocation ends with a ClientError
MaxFaults == 3

(* --------------------------- Python values ----------------------------- *)
Return(v) == [raised |-> FALSE, value |-> v]
Raise(e) == [raised |-> TRUE, exc |-> e]

\* d[k] = v on a dict
Put(d, k, v) == (k :> v) @@ d
\* d.get(k, default)
Get(d, k, default) == IF k \in DOMAIN d THEN d[k] ELSE default
\* d[k]: KeyError when the key is absent
Subscript(d, k) == IF k \in DOMAIN d THEN Return(d[k]) ELSE Raise("KeyError")
\* the empty dict {}
EmptyDict == [k \in {} |-> <<>>]

RECURSIVE Flatten(_)
\* list.extend over a sequence of lists
Flatten(ss) == IF ss = <<>> THEN <<>> ELSE Head(ss) \o Flatten(Tail(ss))

(* ----------------------------- provider -------------------------------- *)
\* "full": responses carry their result key and faults carry Code/Message;
\* "sparse": responses omit the result key and faults carry no Error block.
Worlds == {"full", "sparse"}

\* how one provider invocation ends
CallOutcomes == [end : {"ok", "ClientError", "EnvError"}]

\* a pager run: `pages` pages are fetched successfully, then the pager is
\* exhausted ("ok", after all its MaxPages pages) or the next fetch raises
PagerRuns ==
  [pages : {MaxPages}, end : {"ok"}]
    \cup [pages : 0..(MaxPages - 1), end : {"ClientError", "EnvError"}]

\* e.response of a ClientError
ErrorResponse(world, op) ==
  IF world = "full"
  THEN [Error |-> [Code |-> "AccessDenied", Message |-> op]]
  ELSE EmptyDict

\* str(e) of a ClientError
StrOfError(world, op) == <<"ClientError", op, world>>

\* the structured error of lines 39-45, 62-67 and 215-221
ErrorObj(world, op) ==
  LET err == Get(ErrorResponse(world, op), "Error", EmptyDict)
  IN  [error |-> StrOfError(world, op),
       code |-> Get(err, "Code", ""),
       message |-> Get(err, "Message", "")]

\* the resources an operation lists in a region (opaque records)
Resources(region, op) == << <<region, op, 1>>, <<region, op, 2>> >>

\* the response of a non-paginated operation
Response(world, region, op, rk) ==
  IF world = "full" THEN (rk :> Resources(region, op)) ELSE EmptyDict

\* the table names the provider lists, one per page
TableNames == <<"A", "B", "C", "D", "E">>

\* page i of a paginated operation
PageOf(world, region, op, rk, i) ==
  IF world = "sparse" /\ i = 1 THEN EmptyDict
  ELSE IF op = "describe_instances"
       THEN (rk :> << [ReservationId |-> i,
                       Instances |-> << <<region, "i", i, 1>>, <<region, "i", i, 2>> >>],
                      [ReservationId |-> i + 100] >>)
       ELSE IF op = "list_tables"
            THEN (rk :> << TableNames[i] >>)
            ELSE (rk :> << <<region, op, i>> >>)

(* ----------------------------- safe_call ------------------------------- *)
\* a variant with a bare `except Exception`: every fault is turned into data
safe_call_CatchesAll(world, op, o, resp) ==
  CASE o = "ok" -> Return([ok |-> TRUE, data |-> resp])
    [] OTHER -> Return([ok |-> FALSE] @@ ErrorObj(world, op))

\* safe_call(fn): fn's outcome is `o`, its response `resp`
safe_call(world, op, o, resp) ==
  CASE o = "ok" -> Return([ok |-> TRUE, data |-> resp])
    [] o = "ClientError" -> Return([ok |-> FALSE] @@ ErrorObj(world, op))
    [] OTHER -> Raise(o)

(* ----------------------------- _paginate ------------------------------- *)
\* items.extend(page.get(result_key, []) or []) over the pages fetched
PagedItems(world, region, op, rk, n) ==
  Flatten([i \in 1..n |-> Get(PageOf(world, region, op, rk, i), rk, <<>>)])

\* Python's None, and the truth value of a dict or None
None == [none |-> TRUE]
Truthy(x) == "none" \notin DOMAIN x /\ DOMAIN x # {}

\* a variant that keeps the pages gathered before the fault
_paginate_KeepsPartial(world, region, op, rk, run) ==
  CASE run.end = "ok" ->
         Return(<<PagedItems(world, region, op, rk, run.pages), None>>)
    [] run.end = "ClientError" ->
         Return(<<PagedItems(world, region, op, rk, run.pages), ErrorObj(world, op)>>)
    [] OTHER -> Raise(run.end)

_paginate(world, region, op, rk, run) ==
  CASE run.end = "ok" ->
         Return(<<PagedItems(world, region, op, rk, run.pages), None>>)
    [] run.end = "ClientError" -> Return(<<<<>>, ErrorObj(world, op)>>)
    [] OTHER -> Raise(run.end)

(* ------------------------ category key tables -------------------------- *)
\* key + "_error"
ErrKey ==
  [account_aliases |-> "account_aliases_error", s3_buckets |-> "s3_buckets_error",
   iam_users |-> "iam_users_error", vpcs |-> "vpcs_error", subnets |-> "subnets_error",
   route_tables |-> "route_tables_error",
   internet_gateways |-> "internet_gateways_error",
   nat_gateways |-> "nat_gateways_error", security_groups |-> "security_groups_error",
   network_interfaces |-> "network_interfaces_error", instances |-> "instances_error",
   ebs_volumes |-> "ebs_volumes_error", load_balancers |-> "load_balancers_error",
   target_groups |-> "target_groups_error", rds_db_instances |-> "rds_db_instances_error",
   rds_db_clusters |-> "rds_db_clusters_error",
   autoscaling_groups |-> "autoscaling_groups_error",
   dynamodb_tables |-> "dynamodb_tables_error"]

\* key[0].upper() + key[1:] of line 119
Capitalized ==
  [vpcs |-> "Vpcs", subnets |-> "Subnets", route_tables |-> "Route_tables",
   internet_gateways |-> "Internet_gateways", nat_gateways |-> "Nat_gateways",
   security_groups |-> "Security_groups", network_interfaces |-> "Network_interfaces"]

(* ------------------- the repeated statement patterns ------------------- *)
\* a variant of the block that forgets to record the error
CallBlock_NoError(data, key, rk, resp) ==
  Put(data, key, IF resp.ok THEN Get(resp.data, rk, <<>>) ELSE <<>>)

\* data[key] = resp["data"].get(rk, []) if resp["ok"] else []
\* if not resp["ok"]: data[key + "_error"] = resp
CallBlock(data, key, rk, resp) ==
  LET d1 == Put(data, key, IF resp.ok THEN Get(resp.data, rk, <<>>) ELSE <<>>)
  IN  IF ~resp.ok THEN Put(d1, ErrKey[key], resp) ELSE d1

\* a variant of the pager block that stores err whether or not there is one
PagerBlock_StoresNone(data, key, pair) ==
  Put(Put(data, key, pair[1]), ErrKey[key], pair[2])

\* data[key] = items
\* if err: data[key + "_error"] = err
PagerBlock(data, key, pair) ==
  LET d1 == Put(data, key, pair[1])
  IN  IF Truthy(pair[2]) THEN Put(d1, ErrKey[key], pair[2]) ELSE d1

\* a variant of the instances block that empties the category without
\* recording why
InstancesBlock_NoError(data, pair) ==
  IF Truthy(pair[2])
  THEN Put(data, "instances", <<>>)
  ELSE Put(data, "instances",
           Flatten([i \in 1..Len(pair[1]) |-> Get(pair[1][i], "Instances", <<>>)]))

\* a variant of the instances block that assigns where the code extends:
\* the list ends as the instance list of the last reservation
InstancesBlock_Overwrites(data, pair) ==
  IF Truthy(pair[2])
  THEN Put(Put(data, "instances", <<>>), "instances_error", pair[2])
  ELSE Put(data, "instances",
           IF pair[1] = <<>> THEN <<>>
           ELSE Get(pair[1][Len(pair[1])], "Instances", <<>>))

\* lines 165-172: the instances block, flattening reservations
InstancesBlock(data, pair) ==
  IF Truthy(pair[2])
  THEN Put(Put(data, "instances", <<>>), "instances_error", pair[2])
  ELSE Put(data, "instances",
           Flatten([i \in 1..Len(pair[1]) |-> Get(pair[1][i], "Instances", <<>>)]))

(* --------------------------- collector frames -------------------------- *)
\* The local state of one run of a collector: the statement it is at (pc),
\* the dict under construction, the DynamoDB locals, the provider calls it
\* has issued, and how it has ended ("running", "returned", "raised").
Ops ==
  {"list_account_aliases", "list_buckets", "list_users", "describe_vpcs",
   "describe_subnets", "describe_route_tables", "describe_internet_gateways",
   "describe_nat_gateways", "describe_security_groups",
   "describe_network_interfaces", "describe_instances", "describe_volumes",
   "describe_load_balancers", "describe_target_groups", "describe_db_instances",
   "describe_db_clusters", "describe_auto_scaling_groups", "list_tables",
   "describe_table"}

\* Beside the collector's locals a frame keeps what the provider did to it:
\* the number of ClientErrors (faults), the last statement run and its answer
\* (last), the categories whose populating call ended with a ClientError
\* (failed) and the table names whose describe_table did (describe_failed).
NewFrame(target, world, outage, data) ==
  [target |-> target, world |-> world, outage |-> outage, faults |-> 0,
   pc |-> 1, status |-> "running",
   exc |-> "", data |-> data, table_names |-> <<>>, tables |-> <<>>,
   errors |-> <<>>, calls |-> [o \in Ops |-> 0],
   last |-> [site |-> 0, inp |-> [end |-> "none"]],
   failed |-> {}, describe_failed |-> {}]

\* the way an answer of the provider ends
EndOf(inp) == inp.end

\* the statements whose result is what a category finally holds
Populating == {"call", "pager", "instances", "list_tables"}

\* one more invocation, by statement s, answered by inp
Called(f, s, inp) ==
  LET fault == EndOf(inp) = "ClientError"
  IN  [f EXCEPT
         !.calls[s.op] = @ + 1,
         !.faults = IF fault THEN @ + 1 ELSE @,
         !.last = [site |-> f.pc, inp |-> inp],
         !.failed = IF fault /\ s.kind \in Populating THEN @ \cup {s.key} ELSE @,
         !.describe_failed =
           IF fault /\ s.kind = "describe"
           THEN @ \cup {f.table_names[Len(f.tables) + Len(f.errors) + 1]}
           ELSE @]
\* an exception leaves the collector
Raised(f, e) == [f EXCEPT !.status = "raised", !.exc = e]
\* return data / return out
Returned(f, data) == [f EXCEPT !.status = "returned", !.data = data]
\* fall through to the next statement
Goto(f, data, pc) == [f EXCEPT !.data = data, !.pc = pc]

(* ---------------------- collect_global_inventory ----------------------- *)
\* the three blocks of lines 77-93
GlobalProg ==
  << [kind |-> "call", key |-> "account_aliases", op |-> "list_account_aliases",
      rk |-> "AccountAliases"],
     [kind |-> "call", key |-> "s3_buckets", op |-> "list_buckets", rk |-> "Buckets"],
     [kind |-> "pager", key |-> "iam_users", op |-> "list_users", rk |-> "Users"] >>

\* out = {}
GlobalFrame(world, outage) == NewFrame("global", world, outage, EmptyDict)

\* a variant that returns what it has as soon as a block met a provider fault
GlobalStep_ShortCircuit(f0, inp) ==
  LET s == GlobalProg[f0.pc]
      f == Called(f0, s, inp)
      last == f.pc = Len(GlobalProg) \/ inp.end = "ClientError"
      next(d) == IF last THEN Returned(f, d) ELSE Goto(f, d, f.pc + 1)
  IN  IF s.kind = "call"
      THEN LET r == safe_call(f.world, s.op, inp.end,
                              Response(f.world, f.target, s.op, s.rk))
           IN  IF r.raised THEN Raised(f, r.exc)
               ELSE next(CallBlock(f.data, s.key, s.rk, r.value))
      ELSE LET r == _paginate(f.world, f.target, s.op, s.rk, inp)
           IN  IF r.raised THEN Raised(f, r.exc)
               ELSE next(PagerBlock(f.data, s.key, r.value))

\* one block of collect_global_inventory; `inp` is how the provider answers
GlobalStep(f0, inp) ==
  LET s == GlobalProg[f0.pc]
      f == Called(f0, s, inp)
      last == f.pc = Len(GlobalProg)
      next(d) == IF last THEN Returned(f, d) ELSE Goto(f, d, f.pc + 1)
  IN  IF s.kind = "call"
      THEN LET r == safe_call(f.world, s.op, inp.end,
                              Response(f.world, f.target, s.op, s.rk))
           IN  IF r.raised THEN Raised(f, r.exc)
               ELSE next(CallBlock(f.data, s.key, s.rk, r.value))
      ELSE LET r == _paginate(f.world, f.target, s.op, s.rk, inp)
           IN  IF r.raised THEN Raised(f, r.exc)
               ELSE next(PagerBlock(f.data, s.key, r.value))

(* ---------------------- collect_region_inventory ----------------------- *)
\* the seven (key, call) pairs of lines 109-117, reused by lines 128-161
Core ==
  << [key |-> "vpcs", op |-> "describe_vpcs", rk |-> "Vpcs"],
     [key |-> "subnets", op |-> "describe_subnets", rk |-> "Subnets"],
     [key |-> "route_tables", op |-> "describe_route_tables", rk |-> "RouteTables"],
     [key |-> "internet_gateways", op |-> "describe_internet_gateways",
      rk |-> "InternetGateways"],
     [key |-> "nat_gateways", op |-> "describe_nat_gateways", rk |-> "NatGateways"],
     [key |-> "security_groups", op |-> "describe_security_groups",
      rk |-> "SecurityGroups"],
     [key |-> "network_interfaces", op |-> "describe_network_interfaces",
      rk |-> "NetworkInterfaces"] >>

Site(kind, key, op, rk) == [kind |-> kind, key |-> key, op |-> op, rk |-> rk]

\* the statements of collect_region_inventory that call the provider, in order
RegionProg ==
  [i \in 1..7 |-> Site("loop", Core[i].key, Core[i].op, Capitalized[Core[i].key])]
  \o << Site("fix_cond", "vpcs", "describe_vpcs", "Vpcs"),
        Site("fix_val", "vpcs", "describe_vpcs", "Vpcs") >>
  \o [i \in 1..7 |-> Site("call", Core[i].key, Core[i].op, Core[i].rk)]
  \o << Site("instances", "instances", "describe_instances", "Reservations"),
        Site("pager", "ebs_volumes", "describe_volumes", "Volumes"),
        Site("call", "load_balancers", "describe_load_balancers", "LoadBalancers"),
        Site("call", "target_groups", "describe_target_groups", "TargetGroups"),
        Site("call", "rds_db_instances", "describe_db_instances", "DBInstances"),
        Site("call", "rds_db_clusters", "describe_db_clusters", "DBClusters"),
        Site("pager", "autoscaling_groups", "describe_auto_scaling_groups",
             "AutoScalingGroups"),
        Site("list_tables", "dynamodb_tables", "list_tables", "TableNames"),
        Site("describe", "dynamodb_tables", "describe_table", "Table") >>

\* data = {"region": region}
RegionFrame(region, world, outage) ==
  NewFrame(region, world, outage, [region |-> region])

\* the response of describe_table(TableName=name)
TableResponse(world, region, name) ==
  IF world = "full"
  THEN [Table |-> [TableName |-> name, Region |-> region]]
  ELSE EmptyDict

\* a variant that stores the describe errors even when there are none
FinishTables_AlwaysErrors(f, tables, errors) ==
  Returned([f EXCEPT !.tables = tables, !.errors = errors],
           Put(Put(f.data, "dynamodb_tables", tables),
               "dynamodb_tables_describe_errors", errors))

\* lines 233-237: store the tables, and the describe errors if any
FinishTables(f, tables, errors) ==
  LET d1 == Put(f.data, "dynamodb_tables", tables)
  IN  Returned([f EXCEPT !.tables = tables, !.errors = errors],
               IF errors # <<>>
               THEN Put(d1, "dynamodb_tables_describe_errors", errors)
               ELSE d1)

\* a variant without the return of line 222: the names of the pages already
\* read are described
ListTablesStep_NoReturn(f, s, run) ==
  CASE run.end = "EnvError" -> Raised(f, run.end)
    [] OTHER ->
         LET names == PagedItems(f.world, f.target, s.op, s.rk, run.pages)
             d == IF run.end = "ok" THEN f.data
                  ELSE Put(Put(f.data, "dynamodb_tables", <<>>),
                           "dynamodb_tables_error", ErrorObj(f.world, s.op))
             g == [f EXCEPT !.table_names = names, !.data = d]
         IN  IF names = <<>> THEN FinishTables(g, <<>>, <<>>)
             ELSE Goto(g, g.data, g.pc + 1)

\* lines 209-222: page through the table names
ListTablesStep(f, s, run) ==
  CASE run.end = "ok" ->
         LET names == PagedItems(f.world, f.target, s.op, s.rk, run.pages)
             g == [f EXCEPT !.table_names = names]
         IN  IF names = <<>> THEN FinishTables(g, <<>>, <<>>)
             ELSE Goto(g, g.data, g.pc + 1)
    [] run.end = "ClientError" ->
         Returned(f, Put(Put(f.data, "dynamodb_tables", <<>>),
                         "dynamodb_tables_error", ErrorObj(f.world, s.op)))
    [] OTHER -> Raised(f, run.end)

\* a variant in which the first describe failure ends the loop
DescribeStep_StopsAtFailure(f, s, o) ==
  LET t == Len(f.tables) + Len(f.errors) + 1
      name == f.table_names[t]
      r == safe_call(f.world, s.op, o.end, TableResponse(f.world, f.target, name))
  IN  IF r.raised THEN Raised(f, r.exc)
      ELSE IF r.value.ok
           THEN LET tables == Append(f.tables, Get(r.value.data, "Table", EmptyDict))
                IN  IF t = Len(f.table_names) THEN FinishTables(f, tables, f.errors)
                    ELSE [f EXCEPT !.tables = tables]
           ELSE FinishTables(f, f.tables,
                             Append(f.errors, [TableName |-> name] @@ r.value))

\* lines 226-231: one iteration of the describe loop
DescribeStep(f, s, o) ==
  LET t == Len(f.tables) + Len(f.errors) + 1
      name == f.table_names[t]
      r == safe_call(f.world, s.op, o.end, TableResponse(f.world, f.target, name))
  IN  IF r.raised THEN Raised(f, r.exc)
      ELSE LET resp == r.value
               tables == IF resp.ok
                         THEN Append(f.tables, Get(resp.data, "Table", EmptyDict))
                         ELSE f.tables
               errors == IF resp.ok
                         THEN f.errors
                         ELSE Append(f.errors, [TableName |-> name] @@ resp)
           IN  IF t = Len(f.table_names) THEN FinishTables(f, tables, errors)
               ELSE [f EXCEPT !.tables = tables, !.errors = errors]

\* one provider-calling statement of collect_region_inventory; `inp` is how
\* the provider answers (a call outcome, or a pager run)
RegionStep(f0, inp) ==
  LET s == RegionProg[f0.pc]
      f == Called(f0, s, inp)
      resp == Response(f.world, f.target, s.op, Core[1].rk)
  IN  CASE s.kind = "loop" ->
             \* lines 118-119
             LET r == safe_call(f.world, s.op, inp.end,
                                Response(f.world, f.target, s.op,
                                         Core[f.pc].rk))
             IN  IF r.raised THEN Raised(f, r.exc)
                 ELSE Goto(f, Put(f.data, s.key,
                                  IF r.value.ok THEN Get(r.value.data, s.rk, <<>>)
                                  ELSE <<>>),
                           f.pc + 1)
        [] s.kind = "fix_cond" ->
             \* line 123, the condition safe_call(ec2.describe_vpcs)["ok"]
             LET r == safe_call(f.world, s.op, inp.end, resp)
             IN  IF r.raised THEN Raised(f, r.exc)
                 ELSE IF r.value.ok THEN Goto(f, f.data, f.pc + 1)
                      ELSE Goto(f, Put(f.data, "vpcs", <<>>), f.pc + 2)
        [] s.kind = "fix_val" ->
             \* line 123, the value safe_call(ec2.describe_vpcs)["data"].get("Vpcs", [])
             LET r == safe_call(f.world, s.op, inp.end, resp)
                 d == IF r.raised THEN r ELSE Subscript(r.value, "data")
             IN  IF d.raised THEN Raised(f, d.exc)
                 ELSE Goto(f, Put(f.data, "vpcs", Get(d.value, "Vpcs", <<>>)), f.pc + 1)
        [] s.kind = "call" ->
             LET r == safe_call(f.world, s.op, inp.end,
                                Response(f.world, f.target, s.op, s.rk))
             IN  IF r.raised THEN Raised(f, r.exc)
                 ELSE Goto(f, CallBlock(f.data, s.key, s.rk, r.value), f.pc + 1)
        [] s.kind = "instances" ->
             LET r == _paginate(f.world, f.target, s.op, s.rk, inp)
             IN  IF r.raised THEN Raised(f, r.exc)
                 ELSE Goto(f, InstancesBlock(f.data, r.value), f.pc + 1)
        [] s.kind = "pager" ->
             LET r == _paginate(f.world, f.target, s.op, s.rk, inp)
             IN  IF r.raised THEN Raised(f, r.exc)
                 ELSE Goto(f, PagerBlock(f.data, s.key, r.value), f.pc + 1)
        [] s.kind = "list_tables" -> ListTablesStep(f, s, inp)
        [] OTHER -> DescribeStep(f, s, inp)

\* the answers the provider can give at the statement a frame is at
Inputs(prog, f) ==
  LET all == IF prog[f.pc].kind \in {"pager", "instances", "list_tables"}
             THEN PagerRuns ELSE CallOutcomes
  IN  {inp \in all :
         IF f.outage THEN EndOf(inp) = "ClientError"
         ELSE EndOf(inp) = "ClientError" => f.faults < MaxFaults}

(* ------------------- whole runs of the collectors ---------------------- *)
\* A scenario fixes how the provider answers every invocation of one run.
Scenarios == {"ok", "outage", "flaky_vpcs", "env_fault", "tables_fault"}
\* the scenarios the orchestrator's collectors are run under
GlobalScenarios == {"ok", "tables_fault", "env_fault"}
RegionScenarios == {"ok", "tables_fault", "flaky_vpcs"}

\* the answer a scenario gives at the statement a frame is at
Answer(sc, prog, f) ==
  LET s == prog[f.pc]
      paged == s.kind \in {"pager", "instances", "list_tables"}
      ok == IF paged THEN [pages |-> MaxPages, end |-> "ok"] ELSE [end |-> "ok"]
      fail(e, k) == IF paged THEN [pages |-> k, end |-> e] ELSE [end |-> e]
  IN  CASE sc = "ok" -> ok
        [] sc = "outage" -> fail("ClientError", 0)
        [] sc = "flaky_vpcs" ->
             \* the third describe_vpcs (the value of line 123) is refused
             IF s.op = "describe_vpcs" /\ f.calls["describe_vpcs"] = 2
             THEN fail("ClientError", 0) ELSE ok
        [] sc = "env_fault" ->
             \* no route to the endpoint while paging instances or users
             IF s.op \in {"describe_instances", "list_users"}
             THEN fail("EnvError", MaxPages - 1) ELSE ok
        [] OTHER ->
             IF s.op \in {"list_tables", "describe_subnets", "list_buckets"}
             THEN fail("ClientError", MaxPages - 1) ELSE ok

RECURSIVE RunGlobal(_, _)
\* collect_global_inventory from frame f to its end
RunGlobal(f, sc) ==
  IF f.status # "running" THEN f
  ELSE RunGlobal(GlobalStep(f, Answer(sc, GlobalProg, f)), sc)

RECURSIVE RunRegion(_, _)
\* collect_region_inventory from frame f to its end
RunRegion(f, sc) ==
  IF f.status # "running" THEN f
  ELSE RunRegion(RegionStep(f, Answer(sc, RegionProg, f)), sc)

\* what a finished frame hands to the caller
Outcome(f) == IF f.status = "raised" THEN Raise(f.exc) ELSE Return(f.data)

collect_global_inventory(sc) == Outcome(RunGlobal(GlobalFrame("full", FALSE), sc))

collect_region_inventory(region, sc) ==
  Outcome(RunRegion(RegionFrame(region, "full", FALSE), sc))

(* ------------------------------- state --------------------------------- *)
VARIABLES
  frame,        \* a collector run on its own (SpecCollectors)
  regions,      \* collect_inventory: the regions argument
  max_workers,  \* collect_inventory: the max_workers argument
  pc,           \* collect_inventory: where the calling thread is
  global_inv,   \* collect_inventory: the GlobalRecord
  futures,      \* the pool's futures, in submission order
  items,        \* collect_inventory: the accumulated RegionRecords
  result,       \* what collect_inventory handed to its caller
  global_runs   \* how often collect_global_inventory has been called

orch == <<regions, max_workers, pc, global_inv, futures, items, result, global_runs>>
vars == <<frame, regions, max_workers, pc, global_inv, futures, items, result,
          global_runs>>

\* region identifiers, with their code points (Python compares str by code point)
CodePoints ==
  [r \in {"eu-west-1", "us-east-1", "us-west-2"} |->
     CASE r = "eu-west-1" -> <<101, 117, 45, 119, 101, 115, 116, 45, 49>>
       [] r = "us-east-1" -> <<117, 115, 45, 101, 97, 115, 116, 45, 49>>
       [] r = "us-west-2" -> <<117, 115, 45, 119, 101, 115, 116, 45, 50>>]
Regions == DOMAIN CodePoints

\* the orchestrator at rest
OrchIdle ==
  /\ regions = <<>>
  /\ max_workers = 1
  /\ pc = "idle"
  /\ global_inv = EmptyDict
  /\ futures = <<>>
  /\ items = <<>>
  /\ result = None
  /\ global_runs = 0

(* ------------------ the collectors, one statement a step --------------- *)
InitCollectors ==
  /\ frame \in {GlobalFrame(w, o) : w \in Worlds, o \in BOOLEAN}
               \cup {RegionFrame("us-east-1", w, o) : w \in Worlds, o \in BOOLEAN}
  /\ OrchIdle

\* collect_global_inventory executes its next block
GlobalCollect ==
  /\ frame.target = "global"
  /\ frame.status = "running"
  /\ \E inp \in Inputs(GlobalProg, frame) : frame' = GlobalStep(frame, inp)
  /\ UNCHANGED orch

\* collect_region_inventory executes its next provider-calling statement
RegionCollect ==
  /\ frame.target # "global"
  /\ frame.status = "running"
  /\ \E inp \in Inputs(RegionProg, frame) : frame' = RegionStep(frame, inp)
  /\ UNCHANGED orch

NextCollectors == GlobalCollect \/ RegionCollect

SpecCollectors == InitCollectors /\ [][NextCollectors]_vars

(* ------------------------- safe_call on its own ------------------------ *)
\* how fn(**kwargs) can end: normally, with a ClientError, or with another
\* exception (no route to the endpoint; a call with a wrong argument)
FnOutcomes == {"ok", "ClientError", "EnvError", "TypeError"}

\* safe_call is about to be called with fn = the operation `fn` of a client
InitSafeCall ==
  /\ frame \in [target : {"safe_call"}, status : {"running"}, world : Worlds,
                fn : Ops, end : FnOutcomes, out : {None}]
  /\ OrchIdle

\* lines 36-45: the call is made and safe_call returns or raises
SafeCall ==
  /\ frame.target = "safe_call"
  /\ frame.status = "running"
  /\ frame' = [frame EXCEPT
                 !.status = "ended",
                 !.out = safe_call(frame.world, frame.fn, frame.end,
                                   Response(frame.world, "us-east-1", frame.fn,
                                            "Result"))]
  /\ UNCHANGED orch

NextSafeCall == SafeCall

SpecSafeCall == InitSafeCall /\ [][NextSafeCall]_vars

(* ------------------------------- run_all ------------------------------- *)
\* The Settings object run_all is given. src/config.py declares no
\* run_cloudmapper field, so a Settings() as main.py builds it has none
\* ("absent"); a caller can set one on the instance ("on" / "off").
RunFlags == {"absent", "on", "off"}
Buckets == {"", "audit-bucket"}

\* the files of the run directory written by lines 61-88
Artifacts == {"inventory.json", "audit_report.xlsx", "findings_summary.json"}
ZipName == "cloudmapper_CRIT.zip"

\* how a step that can fail ends
StepEnds == {"ok", "fault"}

InitRunAll ==
  /\ frame \in [target : {"run_all"}, status : {"running"}, pc : {"prepare"},
                run_cloudmapper : RunFlags, s3_bucket : Buckets,
                webserver_env : BOOLEAN, written : {{}}, cloudmapper : {"none"},
                package_tried : {FALSE}, zip : {""}, web_proc : {FALSE},
                uploaded : {{}}, upload_failed : {FALSE}, exc : {""}, out : {""}]
  /\ OrchIdle

\* run_all is at statement p
AtRun(p) == frame.target = "run_all" /\ frame.status = "running" /\ frame.pc = p

\* an exception leaves run_all
RunRaised(e) == [frame EXCEPT !.status = "raised", !.exc = e]

\* a step outside any try block: it writes `files` and goes on, or raises
PlainStep(p, next, files, e) ==
  /\ AtRun(p)
  /\ \E end \in StepEnds :
       frame' = IF end = "ok"
                THEN [frame EXCEPT !.pc = next, !.written = @ \cup files]
                ELSE RunRaised(e)
  /\ UNCHANGED orch

\* lines 50-61: directories, STS identity, sts_identity.json
Prepare == PlainStep("prepare", "inventory", {"sts_identity.json"}, "ClientError")
\* lines 64-72: collect_inventory and inventory.json
Inventory == PlainStep("inventory", "report", {"inventory.json"}, "KeyError")
\* lines 74-75: build_excel
Report == PlainStep("report", "findings", {"audit_report.xlsx"}, "OSError")
\* lines 78-88: findings_summary.json
Findings == PlainStep("findings", "flag", {"findings_summary.json"}, "OSError")

\* line 94: if settings.run_cloudmapper
CloudMapperFlag ==
  /\ AtRun("flag")
  /\ frame' = CASE frame.run_cloudmapper = "absent" -> RunRaised("AttributeError")
                [] frame.run_cloudmapper = "on" -> [frame EXCEPT !.pc = "cloudmapper"]
                [] OTHER -> [frame EXCEPT !.pc = "upload"]
  /\ UNCHANGED orch

\* lines 96-103: run_cloudmapper inside try / except Exception
RunCloudMapper ==
  /\ AtRun("cloudmapper")
  /\ \E end \in StepEnds :
       frame' = [frame EXCEPT !.pc = "package",
                              !.cloudmapper = IF end = "ok" THEN "ok" ELSE "failed"]
  /\ UNCHANGED orch

\* lines 106-113: package_cloudmapper_site_zip inside try / except Exception;
\* the archive is made in the run directory
Package ==
  /\ AtRun("package")
  /\ \E end \in StepEnds :
       frame' = IF end = "ok"
                THEN [frame EXCEPT !.pc = "webserver", !.package_tried = TRUE,
                                   !.zip = ZipName, !.written = @ \cup {ZipName}]
                ELSE [frame EXCEPT !.pc = "webserver", !.package_tried = TRUE]
  /\ UNCHANGED orch

\* lines 116-125: the optional web server inside try / except Exception
Webserver ==
  /\ AtRun("webserver")
  /\ \E end \in StepEnds :
       frame' = [frame EXCEPT !.pc = "upload",
                              !.web_proc = frame.webserver_env /\ end = "ok"]
  /\ UNCHANGED orch

\* lines 128-135: upload_tree of the run directory, then the archive again
Upload ==
  /\ AtRun("upload")
  /\ IF frame.s3_bucket = ""
     THEN frame' = [frame EXCEPT !.pc = "finish"]
     ELSE \E end \in StepEnds :
            frame' = IF end = "ok"
                     THEN [frame EXCEPT !.pc = "finish", !.uploaded = frame.written]
                     ELSE [RunRaised("RuntimeError") EXCEPT !.upload_failed = TRUE]
  /\ UNCHANGED orch

\* lines 137-146: return run_dir
Finish ==
  /\ AtRun("finish")
  /\ frame' = [frame EXCEPT !.status = "returned", !.out = "run_dir"]
  /\ UNCHANGED orch

NextRunAll == Prepare \/ Inventory \/ Report \/ Findings \/ CloudMapperFlag
                \/ RunCloudMapper \/ Package \/ Webserver \/ Upload \/ Finish

SpecRunAll == InitRunAll /\ [][NextRunAll]_vars

(* --------------------------- collect_inventory ------------------------- *)
RECURSIVE LexLess(_, _)
\* a < b on Python str, given as code point sequences
LexLess(a, b) ==
  IF b = <<>> THEN FALSE
  ELSE IF a = <<>> THEN TRUE
  ELSE IF Head(a) # Head(b) THEN Head(a) < Head(b)
  ELSE LexLess(Tail(a), Tail(b))

\* the code points of a sort key ("" when the record has no region)
Ord(k) == IF k = "" THEN <<>> ELSE CodePoints[k]

\* key=lambda x: x.get("region", "")
SortKey(x) == Get(x, "region", "")

RECURSIVE InsertSorted(_, _)
\* x placed behind every element whose key is not greater (a stable sort)
InsertSorted(x, sorted) ==
  IF sorted = <<>> THEN <<x>>
  ELSE IF LexLess(Ord(SortKey(x)), Ord(SortKey(Head(sorted))))
       THEN <<x>> \o sorted
       ELSE <<Head(sorted)>> \o InsertSorted(x, Tail(sorted))

RECURSIVE SortByRegion(_)
\* a variant that leaves the records in completion order
SortByRegion_Unsorted(xs) == xs

\* items.sort(key=lambda x: x.get("region", ""))
SortByRegion(xs) ==
  IF xs = <<>> THEN <<>>
  ELSE InsertSorted(xs[Len(xs)], SortByRegion(SubSeq(xs, 1, Len(xs) - 1)))

Min(a, b) == IF a < b THEN a ELSE b
Max(a, b) == IF a > b THEN a ELSE b

\* workers = min(max_workers, max(1, len(regions)))
Workers(mw, rs) == Min(mw, Max(1, Len(rs)))

\* the outcome of every whole run the orchestrator can start
GlobalOutcome == [sc \in GlobalScenarios |-> collect_global_inventory(sc)]
RegionOutcome ==
  [r \in Regions, sc \in RegionScenarios |-> collect_region_inventory(r, sc)]

\* the futures in a given state
InState(st) == {i \in 1..Len(futures) : futures[i].state = st}
Unyielded == {i \in InState("finished") : ~futures[i].yielded}

InitOrch ==
  /\ frame = [status |-> "unused"]
  /\ regions \in UNION {[1..n -> Regions] : n \in 0..MaxRegions}
  /\ max_workers \in 1..MaxWorkers
  /\ pc = "start"
  /\ global_inv = EmptyDict
  /\ futures = <<>>
  /\ items = <<>>
  /\ result = None
  /\ global_runs = 0

\* a variant that returns early on an empty region list, before the global
\* collection
CollectGlobal_EmptyFirst ==
  /\ pc = "start"
  /\ IF regions = <<>>
     THEN /\ pc' = "done"
          /\ result' = Return([regions |-> <<>>, global |-> EmptyDict,
                               items |-> <<>>])
          /\ UNCHANGED <<global_inv, global_runs>>
     ELSE /\ global_runs' = global_runs + 1
          /\ \E sc \in GlobalScenarios :
               IF GlobalOutcome[sc].raised
               THEN /\ pc' = "raised"
                    /\ result' = GlobalOutcome[sc]
                    /\ UNCHANGED global_inv
               ELSE /\ global_inv' = GlobalOutcome[sc].value
                    /\ pc' = "submit"
                    /\ UNCHANGED result
  /\ UNCHANGED <<frame, regions, max_workers, futures, items>>

\* lines 242-246: the global collection, and the early return on no regions
CollectGlobal ==
  /\ pc = "start"
  /\ global_runs' = global_runs + 1
  /\ \E sc \in GlobalScenarios :
       LET g == GlobalOutcome[sc]
       IN  IF g.raised
           THEN /\ pc' = "raised"
                /\ result' = g
                /\ UNCHANGED global_inv
           ELSE /\ global_inv' = g.value
                /\ IF regions = <<>>
                   THEN /\ pc' = "done"
                        /\ result' = Return([regions |-> <<>>, global |-> g.value,
                                             items |-> <<>>])
                   ELSE /\ pc' = "submit"
                        /\ UNCHANGED result
  /\ UNCHANGED <<frame, regions, max_workers, futures, items>>

\* line 252: ex.submit(collect_region_inventory, r) for the next region
Submit ==
  /\ pc = "submit"
  /\ futures' = Append(futures, [region |-> regions[Len(futures) + 1],
                                 state |-> "pending", yielded |-> FALSE,
                                 result |-> None])
  /\ pc' = IF Len(futures) + 1 = Len(regions) THEN "as_completed" ELSE "submit"
  /\ UNCHANGED <<frame, regions, max_workers, global_inv, items, result, global_runs>>

\* a variant of the pool that starts a thread for every queued work item
WorkerStart_Unbounded ==
  /\ InState("pending") # {}
  /\ LET i == CHOOSE j \in InState("pending") :
                 \A k \in InState("pending") : j <= k
     IN  futures' = [futures EXCEPT ![i].state = "running"]
  /\ UNCHANGED <<frame, regions, max_workers, pc, global_inv, items, result,
               global_runs>>

\* a pool thread takes the oldest pending work item
WorkerStart ==
  /\ InState("pending") # {}
  /\ Cardinality(InState("running")) < Workers(max_workers, regions)
  /\ LET i == CHOOSE j \in InState("pending") :
                 \A k \in InState("pending") : j <= k
     IN  futures' = [futures EXCEPT ![i].state = "running"]
  /\ UNCHANGED <<frame, regions, max_workers, pc, global_inv, items, result,
               global_runs>>

\* a pool thread runs collect_region_inventory to its end and sets the future
WorkerFinish ==
  /\ \E i \in InState("running"), sc \in RegionScenarios :
       futures' = [futures EXCEPT
                     ![i].state = "finished",
                     ![i].result = RegionOutcome[futures[i].region, sc]]
  /\ UNCHANGED <<frame, regions, max_workers, pc, global_inv, items, result,
               global_runs>>

\* lines 253-254: as_completed yields a finished future; items.append(fut.result())
Collect ==
  /\ pc = "as_completed"
  /\ \E i \in Unyielded :
       /\ futures' = [futures EXCEPT ![i].yielded = TRUE]
       /\ IF futures[i].result.raised
          THEN /\ pc' = "shutdown"
               /\ result' = futures[i].result
               /\ UNCHANGED items
          ELSE /\ items' = Append(items, futures[i].result.value)
               /\ UNCHANGED <<pc, result>>
  /\ UNCHANGED <<frame, regions, max_workers, global_inv, global_runs>>

\* the futures whose worker has not ended
Unfinished == InState("pending") \cup InState("running")

\* a variant whose loop ends as soon as no worker is running, whether or not
\* work is still queued
Merge_IgnoresPending ==
  /\ pc = "as_completed"
  /\ Unyielded = {}
  /\ InState("running") = {}
  /\ items' = SortByRegion(items)
  /\ result' = Return([regions |-> regions, global |-> global_inv,
                       items |-> SortByRegion(items)])
  /\ pc' = "done"
  /\ UNCHANGED <<frame, regions, max_workers, global_inv, futures, global_runs>>

\* a variant that assembles the snapshot from the records at hand as soon
\* as the first ones have been consumed
Merge_Streaming ==
  /\ pc = "as_completed"
  /\ items # <<>>
  /\ Unyielded = {}
  /\ items' = SortByRegion(items)
  /\ result' = Return([regions |-> regions, global |-> global_inv,
                       items |-> SortByRegion(items)])
  /\ pc' = "done"
  /\ UNCHANGED <<frame, regions, max_workers, global_inv, futures, global_runs>>

\* lines 251, 257-259: the loop is over, the pool is joined, sort and return
Merge ==
  /\ pc = "as_completed"
  /\ \A i \in 1..Len(futures) : futures[i].yielded
  /\ Unfinished = {}
  /\ items' = SortByRegion(items)
  /\ result' = Return([regions |-> regions, global |-> global_inv,
                       items |-> SortByRegion(items)])
  /\ pc' = "done"
  /\ UNCHANGED <<frame, regions, max_workers, global_inv, futures, global_runs>>

\* a variant whose pool is left without waiting (shutdown(wait=False))
Propagate_NoWait ==
  /\ pc = "shutdown"
  /\ pc' = "raised"
  /\ UNCHANGED <<frame, regions, max_workers, global_inv, futures, items, result,
               global_runs>>

\* line 251: fut.result() raised; the with block joins the pool
\* (shutdown(wait=True)) and the exception leaves collect_inventory
Propagate ==
  /\ pc = "shutdown"
  /\ Unfinished = {}
  /\ pc' = "raised"
  /\ UNCHANGED <<frame, regions, max_workers, global_inv, futures, items, result,
               global_runs>>

Next == CollectGlobal \/ Submit \/ WorkerStart \/ WorkerFinish \/ Collect
          \/ Merge \/ Propagate

Spec == InitOrch /\ [][Next]_vars

(* ======================= properties of collect_inventory =============== *)
Range(seq) == {seq[i] : i \in 1..Len(seq)}
NoDuplicates(seq) ==
  \A i, j \in 1..Len(seq) : i # j => seq[i] # seq[j]

\* collect_inventory has handed control back to its caller
Ended == pc \in {"done", "raised"}
\* every region of a non-empty list was submitted to the pool
Dispatched == regions # <<>> /\ Len(futures) = Len(regions)
\* the futures whose worker ended with an exception / with a record
Crashed == {i \in InState("finished") : futures[i].result.raised}
Produced == {i \in InState("finished") : ~futures[i].result.raised}

\* how many records of a list carry region r
CountRegion(its, r) == Cardinality({i \in 1..Len(its) : its[i].region = r})

\* the tracked categories of a RegionRecord and of the GlobalRecord
RegionCategories ==
  {"vpcs", "subnets", "route_tables", "internet_gateways", "nat_gateways",
   "security_groups", "network_interfaces", "instances", "ebs_volumes",
   "load_balancers", "target_groups", "rds_db_instances", "rds_db_clusters",
   "autoscaling_groups", "dynamodb_tables"}
GlobalCategories == {"account_aliases", "s3_buckets", "iam_users"}

\* a structured error record
IsError(e) == e # None /\ {"error", "code", "message"} \subseteq DOMAIN e
\* a list (possibly empty): a value with a length, indexed from 1
IsList(v) == v = <<>> \/ DOMAIN v = 1..Len(v)

\* the ascending order of the region identifiers, written out
RegionRank == [r \in Regions |->
                 CASE r = "eu-west-1" -> 1 [] r = "us-east-1" -> 2 [] OTHER -> 3]

\* C1: for every non-empty (duplicate-free) region list, once every region
\* is dispatched collect_inventory returns a snapshot whose items hold
\* exactly one record per requested region and no other record, whatever
\* fails in the workers.
C1_OneRecordPerRegion ==
  (Ended /\ Dispatched /\ NoDuplicates(regions)) =>
     /\ ~result.raised
     /\ \A r \in Range(regions) : CountRegion(result.value.items, r) = 1
     /\ \A i \in 1..Len(result.value.items) :
          result.value.items[i].region \in Range(regions)

\* C2: the records of a returned snapshot are in ascending order of region
\* identifier and are, region for region, the requested list rearranged:
\* their order is fixed by the requested regions alone.
C2_SortedByRegion ==
  (pc = "done" /\ regions # <<>>) =>
     LET its == result.value.items
     IN  /\ \A i \in 1..(Len(its) - 1) :
              RegionRank[its[i].region] <= RegionRank[its[i + 1].region]
         /\ Len(its) = Len(regions)
         /\ \A r \in Regions :
              CountRegion(its, r)
                = Cardinality({i \in 1..Len(regions) : regions[i] = r})

\* C2 witness: a list given in descending order came back ascending
C2_Witness ==
  /\ pc = "done"
  /\ regions = <<"us-west-2", "eu-west-1">>
  /\ result.value.items[1].region = "eu-west-1"
  /\ result.value.items[2].region = "us-west-2"

\* C3: when a region's worker ends with a non-provider exception,
\* collect_inventory does not raise and the snapshot holds, for that region,
\* a substitute record with every category empty and a top-level
\* region-failure indicator.
C3_SubstituteRecord ==
  (Ended /\ NoDuplicates(regions) /\ Crashed # {}) =>
     /\ ~result.raised
     /\ \A i \in Crashed :
          \E k \in 1..Len(result.value.items) :
            LET rec == result.value.items[k]
            IN  /\ rec.region = futures[i].region
                /\ \A c \in RegionCategories : c \in DOMAIN rec /\ rec[c] = <<>>
                /\ DOMAIN rec \ ({"region"} \cup RegionCategories) # {}

\* C4: a worker that ends with an exception keeps no other region's worker
\* from ending, and every record another worker produced is in the snapshot
\* collect_inventory returns.
C4_OtherRegionsUnaffected ==
  (Ended /\ NoDuplicates(regions) /\ Crashed # {}) =>
     /\ Unfinished = {}
     /\ \A j \in Produced :
          /\ ~result.raised
          /\ \E k \in 1..Len(result.value.items) :
               result.value.items[k] = futures[j].result.value

\* C5: with an empty region list the global collector is run exactly once,
\* nothing is submitted to the pool, and the snapshot returned has no items
\* and the GlobalRecord with its three categories.
C5_EmptyRegions ==
  (Ended /\ regions = <<>>) =>
     /\ global_runs = 1
     /\ futures = <<>>
     /\ pc = "done" =>
          /\ result = Return([regions |-> <<>>, global |-> global_inv,
                              items |-> <<>>])
          /\ GlobalCategories \subseteq DOMAIN global_inv
          /\ \A c \in GlobalCategories : IsList(global_inv[c])

\* C5 witness: an empty list, answered with a populated GlobalRecord
C5_Witness ==
  /\ pc = "done"
  /\ regions = <<>>
  /\ max_workers = MaxWorkers
  /\ result.value.global.account_aliases # <<>>
  /\ result.value.global.iam_users # <<>>

(* ========================= properties of the collectors ================ *)
\* the statement that populates a category
SiteOf(prog, key) ==
  CHOOSE i \in 1..Len(prog) : prog[i].key = key /\ prog[i].kind \in Populating
ListSite == SiteOf(RegionProg, "dynamodb_tables")

\* the categories a frame's collector tracks
Categories(f) == IF f.target = "global" THEN GlobalCategories ELSE RegionCategories
PagedCategories == {"instances", "ebs_volumes", "autoscaling_groups", "iam_users"}


RECURSIVE Keep(_, _)
\* the elements of a list that are in S, in the list's order
Keep(xs, S) ==
  IF xs = <<>> THEN <<>>
  ELSE IF Head(xs) \in S THEN <<Head(xs)>> \o Keep(Tail(xs), S)
       ELSE Keep(Tail(xs), S)

\* C6: a paginated category whose pager raised a provider fault, after any
\* number of pages, holds [] and has its error field populated: no item of
\* a page read before the fault is kept.
C6_PagerFaultEmptiesCategory ==
  \A c \in PagedCategories \cap Categories(frame) :
     c \in frame.failed =>
       /\ c \in DOMAIN frame.data
       /\ frame.data[c] = <<>>
       /\ ErrKey[c] \in DOMAIN frame.data
       /\ IsError(frame.data[ErrKey[c]])

\* C6 witness: the users pager failed after MaxPages - 1 non-empty pages
C6_Witness ==
  /\ frame.target = "global" /\ frame.status = "returned"
  /\ frame.world = "full"
  /\ frame.last.inp = [pages |-> MaxPages - 1, end |-> "ClientError"]
  /\ PagedItems("full", "global", "list_users", "Users", MaxPages - 1) # <<>>
  /\ frame.data.iam_users = <<>>
  /\ "iam_users_error" \in DOMAIN frame.data

\* C7: when the name listing succeeded, dynamodb_tables holds the
\* descriptions of exactly the names whose describe did not fail, in listing
\* order, and the per-item error list holds one entry for each name whose
\* describe failed, keyed by that name.
C7_DescribeFailuresArePerItem ==
  (/\ frame.target # "global" /\ frame.status = "returned"
   /\ "dynamodb_tables" \notin frame.failed) =>
     LET N == PagedItems(frame.world, frame.target, "list_tables", "TableNames",
                         MaxPages)
         F == frame.describe_failed
         good == Keep(N, Range(N) \ F)
         bad == Keep(N, F)
         errs == Get(frame.data, "dynamodb_tables_describe_errors", <<>>)
     IN  /\ frame.data.dynamodb_tables
              = [i \in 1..Len(good) |->
                   Get(TableResponse(frame.world, frame.target, good[i]),
                       "Table", EmptyDict)]
         /\ Len(errs) = Len(bad)
         /\ \A i \in 1..Len(bad) :
              errs[i].TableName = bad[i] /\ ~errs[i].ok /\ IsError(errs[i])

\* C7 witness: of the names A, B, C the describe of B alone failed
C7_Witness ==
  /\ frame.target # "global" /\ frame.status = "returned"
  /\ frame.world = "full"
  /\ frame.table_names = <<"A", "B", "C">>
  /\ frame.describe_failed = {"B"}
  /\ Len(frame.data.dynamodb_tables) = 2
  /\ frame.data.dynamodb_tables[1].TableName = "A"
  /\ frame.data.dynamodb_tables[2].TableName = "C"
  /\ Len(frame.data.dynamodb_tables_describe_errors) = 1

\* C8: when the name listing pager raises a provider fault, the collector
\* returns at once with dynamodb_tables = [] and dynamodb_tables_error set,
\* without any describe_table call, and leaves every entry stored before
\* as it was.
C8_ListingFaultShortCircuits ==
  [][(/\ frame.status = "running"
      /\ frame.target # "global"
      /\ frame.pc = ListSite
      /\ frame'.last.inp.end = "ClientError") =>
       /\ frame'.status = "returned"
       /\ frame'.data.dynamodb_tables = <<>>
       /\ IsError(frame'.data.dynamodb_tables_error)
       /\ frame'.calls["describe_table"] = 0
       /\ DOMAIN frame'.data
            = DOMAIN frame.data \cup {"dynamodb_tables", "dynamodb_tables_error"}
       /\ \A k \in DOMAIN frame.data : frame'.data[k] = frame.data[k]]_vars

\* C8 witness: the listing failed after a page of names had been read
C8_Witness ==
  /\ frame.target # "global" /\ frame.status = "returned"
  /\ frame.world = "full"
  /\ frame.last = [site |-> ListSite,
                    inp |-> [pages |-> MaxPages - 1, end |-> "ClientError"]]
  /\ frame.data.dynamodb_tables = <<>>
  /\ frame.calls["describe_table"] = 0
  /\ frame.data.vpcs # <<>>

\* C9: in a returned RegionRecord or GlobalRecord every tracked category is
\* present and holds a list, and a category whose call ended with a provider
\* fault holds [] and has an error record under its error key.
C9_CategoriesAreLists ==
  frame.status = "returned" =>
    \A c \in Categories(frame) :
      /\ c \in DOMAIN frame.data
      /\ IsList(frame.data[c])
      /\ c \in frame.failed =>
           /\ frame.data[c] = <<>>
           /\ ErrKey[c] \in DOMAIN frame.data
           /\ IsError(frame.data[ErrKey[c]])

\* C9 witness: a region record with a failed and a populated category
C9_Witness ==
  /\ frame.target # "global" /\ frame.status = "returned"
  /\ frame.failed = {"subnets", "ebs_volumes"}
  /\ frame.data.subnets = <<>>
  /\ frame.data.vpcs # <<>>

\* C10: whatever provider faults (ClientError) the invocations of one region
\* collection meet, collect_region_inventory does not raise: it raises only
\* when an invocation ended with an environment fault.
C10_ProviderFaultsNeverRaise ==
  (frame.target # "global" /\ frame.status = "raised") =>
     frame.last.inp.end = "EnvError"

\* C11: when every invocation of a region collection ends with a provider
\* fault, collect_region_inventory returns a record that carries the region
\* identifier, holds [] under each of the fifteen tracked categories and has
\* an error record under each category's error key.
C11_AllFailedRegion ==
  (frame.target # "global" /\ frame.outage /\ frame.status # "running") =>
     /\ frame.status = "returned"
     /\ frame.data.region = frame.target
     /\ \A c \in RegionCategories :
          /\ c \in DOMAIN frame.data
          /\ frame.data[c] = <<>>
          /\ ErrKey[c] \in DOMAIN frame.data
          /\ IsError(frame.data[ErrKey[c]])

\* C11 witness: a region collection ended after each of its invocations,
\* the name listing last, was refused
C11_Witness ==
  /\ frame.target = "us-east-1" /\ frame.outage
  /\ frame.status = "returned"
  /\ frame.world = "full"
  /\ frame.last.site = ListSite
  /\ frame.faults = ListSite - 1
  /\ frame.calls["describe_vpcs"] = 3
  /\ frame.data.vpcs_error.code = "AccessDenied"

\* C12: safe_call returns {"ok": True, "data": <the response>} when the
\* operation succeeds; when it raises a ClientError safe_call returns (never
\* raises) {"ok": False, ...} with the code and the message of the fault's
\* Error block; any other exception leaves safe_call as it was raised.
C12_SafeCallOutcomes ==
  (frame.target = "safe_call" /\ frame.status = "ended") =>
     CASE frame.end = "ok" ->
            /\ ~frame.out.raised
            /\ frame.out.value
                 = [ok |-> TRUE,
                    data |-> IF frame.world = "full"
                             THEN [Result |-> Resources("us-east-1", frame.fn)]
                             ELSE EmptyDict]
       [] frame.end = "ClientError" ->
            /\ ~frame.out.raised
            /\ DOMAIN frame.out.value = {"ok", "error", "code", "message"}
            /\ ~frame.out.value.ok
            /\ frame.out.value.code
                 = (IF frame.world = "full" THEN "AccessDenied" ELSE "")
            /\ frame.out.value.message
                 = (IF frame.world = "full" THEN frame.fn ELSE "")
       [] OTHER ->
            /\ frame.out.raised
            /\ frame.out.exc = frame.end

\* C12 witness: a ClientError with an Error block came back as data
C12_Witness ==
  /\ frame.target = "safe_call" /\ frame.status = "ended"
  /\ frame.end = "ClientError"
  /\ frame.world = "full"
  /\ ~frame.out.raised
  /\ frame.out.value.code = "AccessDenied"

\* C13: a run of collect_global_inventory that meets no environment fault
\* issues each of its three enumerations once, whichever of them the
\* provider refuses: a refused category holds [] and has an error record,
\* and every other category holds what a fault-free run stores for it and
\* has no error entry.
C13_GlobalBlocksIndependent ==
  (/\ frame.target = "global" /\ frame.status # "running"
   /\ frame.last.inp.end # "EnvError") =>
     LET ref == RunGlobal(GlobalFrame(frame.world, FALSE), "ok").data
     IN  /\ frame.status = "returned"
         /\ \A i \in 1..Len(GlobalProg) : frame.calls[GlobalProg[i].op] = 1
         /\ DOMAIN frame.data
              = GlobalCategories \cup {ErrKey[c] : c \in frame.failed}
         /\ \A c \in GlobalCategories :
              IF c \in frame.failed
              THEN frame.data[c] = <<>> /\ IsError(frame.data[ErrKey[c]])
              ELSE frame.data[c] = ref[c]

\* C13 witness: the bucket listing alone was refused; aliases and users are
\* there
C13_Witness ==
  /\ frame.target = "global" /\ frame.status = "returned"
  /\ frame.world = "full"
  /\ frame.failed = {"s3_buckets"}
  /\ frame.calls["list_users"] = 1
  /\ frame.data.account_aliases # <<>>
  /\ frame.data.iam_users # <<>>
  /\ "iam_users_error" \notin DOMAIN frame.data

(* ============== properties of collect_inventory, continued ============= *)
\* the region identifiers in ascending order
Ascending == <<"eu-west-1", "us-east-1", "us-west-2">>
\* the provider answered alike to every unit of work over the same region
FixedResponses ==
  \A i, j \in 1..Len(futures) :
     futures[i].region = futures[j].region => futures[i].result = futures[j].result
\* the record the provider's responses yield for region r
RecordOf(r) ==
  futures[CHOOSE i \in 1..Len(futures) : futures[i].region = r].result.value
\* the snapshot items fixed by the region list and the provider's responses
\* alone: for each region in ascending order, its record once per entry
ExpectedItems ==
  Flatten([k \in 1..Len(Ascending) |->
             [n \in 1..Cardinality({i \in 1..Len(regions) :
                                      regions[i] = Ascending[k]})
                |-> RecordOf(Ascending[k])]])

\* C14: the snapshot collect_inventory returns is fixed by the region list
\* and the provider's responses: whatever max_workers is (smaller than the
\* number of regions or not) and in whatever order the workers complete,
\* it holds the region list, the GlobalRecord and the regions' records in
\* ascending order of region.
C14_SnapshotIndependentOfWorkers ==
  (pc = "done" /\ regions # <<>> /\ FixedResponses) =>
     /\ Len(futures) = Len(regions)
     /\ \A i \in 1..Len(futures) : futures[i].state = "finished"
     /\ \A i \in 1..Len(futures) : ~futures[i].result.raised
     /\ result = Return([regions |-> regions, global |-> global_inv,
                         items |-> ExpectedItems])

\* C14 witness: one worker served two regions whose records differ, and
\* the snapshot lists them in ascending order
C14_Witness ==
  /\ pc = "done"
  /\ max_workers = 1
  /\ regions = <<"us-west-2", "us-east-1">>
  /\ "subnets_error" \in DOMAIN futures[1].result.value
  /\ "subnets_error" \notin DOMAIN futures[2].result.value
  /\ result.value.items = <<futures[2].result.value, futures[1].result.value>>

\* C15: while a dispatched unit of work has not ended nothing of a snapshot
\* is handed out, and the step that reorders the records or assembles the
\* snapshot is taken only when every region has been dispatched and every
\* unit of work has ended.
C15_MergeAfterAllWorkers ==
  /\ [](Unfinished # {} => (result = None \/ result.raised))
  /\ [][(/\ regions # <<>>
          /\ \/ pc # "done" /\ pc' = "done"
             \/ items' # items /\ Len(items') = Len(items))
           => /\ Len(futures) = Len(regions)
              /\ Unfinished = {}
              /\ \A i \in 1..Len(futures) : futures[i].state = "finished"]_vars

\* C15 witness: a snapshot over two regions has been returned, every unit
\* of work ended
C15_Witness ==
  /\ pc = "done"
  /\ Len(regions) = 2
  /\ max_workers = 2
  /\ \A i \in 1..Len(futures) : futures[i].state = "finished"
  /\ Len(result.value.items) = 2

\* C16: for a non-empty region list the pool is created with
\* min(max_workers, number of distinct regions of the list) threads, a number
\* that is never zero, and no more units of work than that run at once.
C16_ParallelismIsDistinctRegions ==
  (regions # <<>> /\ futures # <<>>) =>
     LET degree == Min(max_workers, Cardinality(Range(regions)))
     IN  /\ degree > 0
         /\ Workers(max_workers, regions) = degree
         /\ Cardinality(InState("running")) <= degree

\* C17: a run of collect_inventory that has handed its regions to the pool
\* ends by returning a snapshot: whatever the provider refuses and whatever
\* a worker raises is data in the snapshot, never an exception leaving
\* collect_inventory.
C17_AlwaysReturnsSnapshot ==
  (Ended /\ futures # <<>>) =>
     /\ pc = "done"
     /\ ~result.raised
     /\ Len(result.value.items) = Len(regions)

\* the futures whose record the calling thread has taken from as_completed
Taken == {j \in Produced : futures[j].yielded}

\* C18: the accumulated sequence holds the record of each worker taken from
\* the pool once and nothing else, and when collect_inventory ends the
\* record of every worker that completed with one has been appended,
\* however the completions interleave.
C18_EveryRecordAppendedOnce ==
  NoDuplicates(regions) =>
    /\ Len(items) = Cardinality(Taken)
    /\ \A j \in Taken : \E k \in 1..Len(items) : items[k] = futures[j].result.value
    /\ Ended => \A j \in Produced : j \in Taken

\* the phase of a run: Idle (before the global collection), RegionsCollecting
\* (regions are being submitted or awaited), Done (the snapshot is returned);
\* GlobalCollecting is the step that leaves Idle and Merging the step that
\* enters Done. A run whose exception is on its way out is in none of them.
Phase ==
  CASE pc = "start" -> "Idle"
    [] pc \in {"submit", "as_completed"} -> "RegionsCollecting"
    [] pc = "done" -> "Done"
    [] OTHER -> "Aborted"

\* C19: a run over a non-empty region list whose global collection has
\* returned moves from Idle through the global collection to
\* RegionsCollecting, stays there until the merge takes it to Done, and
\* stays in Done; it enters no other state, and the snapshot is assembled
\* from the GlobalRecord the one global collection completed before.
C19_PhasesInOrder ==
  [][regions # <<>> =>
       /\ (Phase = "Idle" /\ Phase' # "Aborted") =>
             /\ Phase' = "RegionsCollecting"
             /\ global_runs' = 1
             /\ GlobalCategories \subseteq DOMAIN global_inv'
       /\ Phase = "RegionsCollecting" => Phase' \in {"RegionsCollecting", "Done"}
       /\ (Phase # "Done" /\ Phase' = "Done") =>
             /\ Phase = "RegionsCollecting"
             /\ global_runs = 1
             /\ GlobalCategories \subseteq DOMAIN global_inv
             /\ result'.value.global = global_inv
       /\ Phase = "Done" => Phase' = "Done"]_vars

\* C20: never more than max_workers units of work run at once; the i-th
\* unit submitted is for the i-th entry of the region list, so every entry
\* is dispatched once and none twice; a unit keeps its region from
\* submission to its end, goes from pending to running to finished without
\* ever being started again, and the record it produces is its region's.
C20_BoundedPoolOneUnitPerEntry ==
  /\ [](/\ Cardinality(InState("running")) <= max_workers
        /\ Len(futures) <= Len(regions)
        /\ \A i \in 1..Len(futures) : futures[i].region = regions[i]
        /\ (futures # <<>> /\ pc # "submit") => Len(futures) = Len(regions)
        /\ \A i \in Produced : futures[i].result.value.region = futures[i].region)
  /\ [][/\ Len(futures') >= Len(futures)
         /\ \A i \in 1..Len(futures) :
              /\ futures'[i].region = futures[i].region
              /\ <<futures[i].state, futures'[i].state>>
                   \in {<<"pending", "pending">>, <<"pending", "running">>,
                        <<"running", "running">>, <<"running", "finished">>,
                        <<"finished", "finished">>}
              /\ futures[i].state = "finished"
                   => futures'[i].result = futures[i].result]_vars

\* C20 witness: the single worker of the pool has ended the first region
\* and is running the second
C20_Witness ==
  /\ max_workers = 1
  /\ regions = <<"us-east-1", "eu-west-1">>
  /\ Len(futures) = 2
  /\ futures[1].state = "finished"
  /\ ~futures[1].result.raised
  /\ futures[1].result.value.region = "us-east-1"
  /\ futures[2].state = "running"

(* ================= properties of the collectors, continued ============= *)
\* the first page of describe_instances that carries reservations
FirstInstancePage(world) == IF world = "full" THEN 1 ELSE 2

\* C21: when the instances pager succeeded, data["instances"] is the list
\* of the instances themselves: page by page, reservation by reservation
\* and in each reservation's own order, two for the reservation of each
\* page that lists instances and none for the reservation that has no
\* instance list (nor for a page without reservations).
C21_InstancesFlattened ==
  (/\ frame.target \notin {"global", "safe_call"}
   /\ "instances" \in DOMAIN frame.data
   /\ "instances" \notin frame.failed) =>
     LET first == FirstInstancePage(frame.world)
         n == MaxPages - first + 1
     IN  frame.data.instances
           = [k \in 1..(2 * n) |->
                <<frame.target, "i", first + ((k - 1) \div 2), ((k - 1) % 2) + 1>>]

\* C21 witness: MaxPages pages of two reservations each were read, and the
\* record lists the two instances of each page's first reservation
C21_Witness ==
  /\ frame.target = "us-east-1" /\ frame.status = "returned"
  /\ frame.world = "full"
  /\ "instances" \notin frame.failed
  /\ Len(PageOf("full", "us-east-1", "describe_instances", "Reservations", 1)
           .Reservations) = 2
  /\ Len(frame.data.instances) = 2 * MaxPages
  /\ frame.data.instances[3] = <<"us-east-1", "i", 2, 1>>

\* C23: in a returned RegionRecord the error key of a category is present
\* exactly when the call that populated the category (the single-call
\* block, the pager, the name listing) ended with a provider fault; a fault
\* of an earlier, redundant invocation of the same operation (the loop of
\* lines 109-119, line 123) leaves no error key.
C23_ErrorKeyIffPopulatingCallFailed ==
  (frame.target \notin {"global", "safe_call", "run_all"}
   /\ frame.status = "returned") =>
     \A c \in RegionCategories :
        (ErrKey[c] \in DOMAIN frame.data) <=> (c \in frame.failed)

\* C23 witness: three invocations were refused, all of them redundant ones
\* (no populating call and no describe_table failed), and the record has
\* every category populated and no error key
C23_Witness ==
  /\ frame.target = "us-east-1" /\ frame.status = "returned"
  /\ frame.faults = 3
  /\ frame.failed = {} /\ frame.describe_failed = {}
  /\ frame.calls["describe_vpcs"] = 3
  /\ frame.data.vpcs # <<>>
  /\ \A c \in RegionCategories : ErrKey[c] \notin DOMAIN frame.data

\* the names a successful listing yields in a frame's world and region
ListedNames(f) ==
  PagedItems(f.world, f.target, "list_tables", "TableNames", MaxPages)
DescribeSite == Len(RegionProg)

\* C24: after a successful name listing with names N the collector calls
\* describe_table once for each name, one after the other in the order of
\* N: the k-th call is for N[k] and adds one entry, to the tables or to the
\* errors. On return the tables and the describe errors together number
\* len(N), dynamodb_tables_describe_errors is present exactly when a
\* describe failed, and dynamodb_tables_error is absent.
C24_OneDescribePerName ==
  /\ []((/\ frame.target \notin {"global", "safe_call", "run_all"}
         /\ frame.status = "returned"
         /\ "dynamodb_tables" \notin frame.failed) =>
           LET errs == Get(frame.data, "dynamodb_tables_describe_errors", <<>>)
           IN  /\ frame.calls["describe_table"] = Len(ListedNames(frame))
               /\ Len(frame.data.dynamodb_tables) + Len(errs)
                    = Len(ListedNames(frame))
               /\ ("dynamodb_tables_describe_errors" \in DOMAIN frame.data)
                    <=> (frame.describe_failed # {})
               /\ "dynamodb_tables_error" \notin DOMAIN frame.data)
  /\ [][(/\ frame.target \notin {"global", "safe_call", "run_all"}
          /\ frame.status = "running"
          /\ frame.pc = DescribeSite
          /\ frame'.status # "raised") =>
            LET k == frame.calls["describe_table"] + 1
                name == ListedNames(frame)[k]
            IN  /\ k <= Len(ListedNames(frame))
                /\ frame'.calls["describe_table"] = k
                /\ Len(frame'.tables) + Len(frame'.errors) = k
                /\ IF frame'.last.inp.end = "ClientError"
                   THEN /\ frame'.tables = frame.tables
                        /\ frame'.errors[Len(frame'.errors)].TableName = name
                   ELSE /\ frame'.errors = frame.errors
                        /\ frame.world = "full" =>
                             frame'.tables[Len(frame'.tables)].TableName = name]_vars

\* C24 witness: names A, B, C were listed, three describe_table calls were
\* made, the first and the last refused
C24_Witness ==
  /\ frame.target = "us-east-1" /\ frame.status = "returned"
  /\ frame.world = "full"
  /\ ListedNames(frame) = <<"A", "B", "C">>
  /\ frame.calls["describe_table"] = 3
  /\ frame.describe_failed = {"A", "C"}
  /\ Len(frame.data.dynamodb_tables) = 1
  /\ Len(frame.data.dynamodb_tables_describe_errors) = 2
  /\ "dynamodb_tables_error" \notin DOMAIN frame.data

\* C25: when collect_inventory hands control back, with a snapshot or with
\* the exception of a region worker, every unit of work it submitted has
\* been started and has ended: none is pending and none is running, in the
\* state it ends in and in the step that ends it.
C25_NoWorkerOutlivesTheCall ==
  /\ [](Ended => \A i \in 1..Len(futures) : futures[i].state = "finished")
  /\ [][(~Ended /\ Ended') =>
          /\ Unfinished = {}
          /\ futures' = futures
          /\ regions # <<>> /\ futures # <<>> => Len(futures) = Len(regions)]_vars

\* C25 witness: the only pool thread's first unit raised; the exception
\* left collect_inventory after the second unit, never taken from
\* as_completed, had run to its end
C25_Witness ==
  /\ pc = "raised"
  /\ max_workers = 1
  /\ Len(futures) = 2
  /\ futures[1].state = "finished" /\ futures[1].result.raised
  /\ futures[1].yielded
  /\ futures[2].state = "finished" /\ ~futures[2].yielded

(* ========================== properties of run_all ====================== *)
\* C22: once run_all has written the inventory, report and findings files,
\* nothing short of a failed upload stops it: with CloudMapper enabled the
\* packaging is attempted whether or not collect/prepare failed, a failed
\* packaging is tolerated, a configured bucket receives the run directory,
\* and run_all returns the run directory.
C22_RunAllToleratesCloudMapper ==
  (/\ frame.target = "run_all" /\ frame.status # "running"
   /\ Artifacts \subseteq frame.written
   /\ ~frame.upload_failed) =>
     /\ frame.status = "returned"
     /\ frame.out = "run_dir"
     /\ frame.cloudmapper # "none" => frame.package_tried
     /\ frame.s3_bucket # "" => Artifacts \subseteq frame.uploaded

====
